---- MODULE Spec2Model ----
(***************************************************************************)
(* Model of mcipc.rcon.client: the high-level RCON client.                 *)
(*                                                                         *)
(* A text is a sequence of characters, a character a one-character string. *)
(* Every method of Client is an operator that maps its arguments and the   *)
(* outcomes of the external collaborators it consults (RawClient.run,      *)
(* RawClient.login, the fortune process, setlocale) to an effect: the      *)
(* calls made to RawClient.run, the log records written and the result     *)
(* (a returned value or a raised exception).  One action per method        *)
(* applies the operator to the pending call.                               *)
(***************************************************************************)
EXTENDS Integers, Sequences, FiniteSets, TLC

VARIABLES
  pc,        \* "ready" before the call, "done" once the method has returned or raised
  inp,       \* the call: the method, its arguments and the collaborators' outcomes
  runCalls,  \* the calls the method made to RawClient.run, in order
  procCalls, \* the argument vectors of the processes the method spawned, in order
  logs,      \* the records the method wrote to _LOGGER, in order
  result     \* what the method returned or raised

vars == <<pc, inp, runCalls, procCalls, logs, result>>

----------------------------------------------------------------------------
(* Bounds *)

\* longest message text given to say / tell
MaxMsgLen == 3
\* most names listed in a player-list response
MaxNames == 3
\* largest online / max count in a player-list header
MaxCount == 1
\* largest magnitude of a numeric teleport coordinate
MaxCoord == 3

----------------------------------------------------------------------------
(* Texts *)

TAB == "\t"
SPACE == " "

\* the characters str.split() and str.strip() treat as whitespace
Whitespace == {" ", "\t", "\n", "\r"}

Digits == <<"0", "1", "2", "3", "4", "5", "6", "7", "8", "9">>

DigitChars == {Digits[i] : i \in 1..10}

DigitValue(c) == (CHOOSE i \in 1..10 : Digits[i] = c) - 1

RECURSIVE Join(_, _)
\* sep.join(ts)
Join(ts, sep) ==
  IF ts = <<>> THEN <<>>
  ELSE IF Len(ts) = 1 THEN ts[1]
  ELSE ts[1] \o sep \o Join(Tail(ts), sep)

\* text[i:] (1-based, inclusive)
From(text, i) == SubSeq(text, i, Len(text))

\* text.startswith(pat)
StartsWith(text, pat) ==
  /\ Len(pat) <= Len(text)
  /\ SubSeq(text, 1, Len(pat)) = pat

RECURSIVE NatStr(_)
\* decimal digits of a natural number
NatStr(n) ==
  IF n < 10 THEN <<Digits[n + 1]>>
  ELSE NatStr(n \div 10) \o <<Digits[(n % 10) + 1]>>

\* str(i) of an int
IntStr(i) == IF i < 0 THEN <<"-">> \o NatStr(-i) ELSE NatStr(i)

\* an argument that is an int or a str
IntArg(i) == [isint |-> TRUE, i |-> i, s |-> <<>>]
StrArg(s) == [isint |-> FALSE, i |-> 0, s |-> s]

\* str(v)
Str(v) == IF v.isint THEN IntStr(v.i) ELSE v.s

\* optional arguments: None, or a supplied value
None == <<>>
Some(v) == <<v>>

----------------------------------------------------------------------------
(* Results and effects *)

NoVal == [t |-> "none", b |-> FALSE, s |-> <<>>, online |-> 0, max |-> 0, names |-> <<>>]
BoolVal(b) == [t |-> "bool", b |-> b, s |-> <<>>, online |-> 0, max |-> 0, names |-> <<>>]
TextVal(s) == [t |-> "text", b |-> FALSE, s |-> s, online |-> 0, max |-> 0, names |-> <<>>]
PlayersVal(o, m, ns) == [t |-> "players", b |-> FALSE, s |-> <<>>, online |-> o, max |-> m, names |-> ns]

Return(v) == [kind |-> "return", exc |-> "", val |-> v]
Raise(e) == [kind |-> "raise", exc |-> e, val |-> NoVal]

Effect(calls, procs, lg, res) == [calls |-> calls, procs |-> procs, logs |-> lg, result |-> res]

Log(level, msg) == [level |-> level, msg |-> msg]

----------------------------------------------------------------------------
(* Module-level helpers of client.py *)

RECURSIVE tab_to_four_spaces(_)
\* tab_to_spaces with a tab stop of four
tab_to_four_spaces(text) ==
  IF text = <<>> THEN <<>>
  ELSE IF Head(text) = TAB
       THEN <<SPACE, SPACE, SPACE, SPACE>> \o tab_to_four_spaces(Tail(text))
       ELSE <<Head(text)>> \o tab_to_four_spaces(Tail(text))

RECURSIVE tab_to_spaces(_)
\* text.replace('\t', '        ')
tab_to_spaces(text) ==
  IF text = <<>> THEN <<>>
  ELSE IF Head(text) = TAB
       THEN <<SPACE, SPACE, SPACE, SPACE, SPACE, SPACE, SPACE, SPACE>> \o tab_to_spaces(Tail(text))
       ELSE <<Head(text)>> \o tab_to_spaces(Tail(text))

RECURSIVE SplitOnFrom(_, _, _)
SplitOnFrom(text, sep, cur) ==
  IF text = <<>> THEN <<cur>>
  ELSE IF StartsWith(text, sep)
       THEN <<cur>> \o SplitOnFrom(From(text, Len(sep) + 1), sep, <<>>)
       ELSE SplitOnFrom(Tail(text), sep, Append(cur, Head(text)))

\* text.split(sep): cut at every occurrence of sep, left to right
SplitOn(text, sep) == SplitOnFrom(text, sep, <<>>)

\* text.split(sep, maxsplit=1) for a one-character sep: cut at its first occurrence only
SplitFirst(text, sep) ==
  IF \E i \in 1..Len(text) : text[i] = sep
  THEN LET i == CHOOSE j \in 1..Len(text) :
                  /\ text[j] = sep
                  /\ \A k \in 1..(j - 1) : text[k] # sep
       IN <<SubSeq(text, 1, i - 1), From(text, i + 1)>>
  ELSE <<text>>

RECURSIVE SplitWsFrom(_, _)
SplitWsFrom(text, cur) ==
  IF text = <<>> THEN (IF cur = <<>> THEN <<>> ELSE <<cur>>)
  ELSE IF Head(text) \in Whitespace
       THEN (IF cur = <<>> THEN <<>> ELSE <<cur>>) \o SplitWsFrom(Tail(text), <<>>)
       ELSE SplitWsFrom(Tail(text), Append(cur, Head(text)))

\* text.split(): the maximal runs of non-whitespace characters
SplitWhitespace(text) == SplitWsFrom(text, <<>>)

RECURSIVE LStrip(_)
LStrip(text) ==
  IF text # <<>> /\ Head(text) \in Whitespace THEN LStrip(Tail(text)) ELSE text

RECURSIVE RStrip(_)
RStrip(text) ==
  IF text # <<>> /\ text[Len(text)] \in Whitespace
  THEN RStrip(SubSeq(text, 1, Len(text) - 1)) ELSE text

\* text.strip()
Strip(text) == RStrip(LStrip(text))

\* the digits of an int literal after its sign: digits, single underscores between them
IsDigitGroup(ds) ==
  /\ ds # <<>>
  /\ \A i \in 1..Len(ds) : ds[i] \in DigitChars \cup {"_"}
  /\ ds[1] # "_"
  /\ ds[Len(ds)] # "_"
  /\ \A i \in 1..(Len(ds) - 1) : ~(ds[i] = "_" /\ ds[i + 1] = "_")

Unsigned(text) ==
  IF text # <<>> /\ Head(text) \in {"+", "-"} THEN Tail(text) ELSE text

\* int(text) succeeds
IsIntLiteral(text) == IsDigitGroup(Unsigned(Strip(text)))

RECURSIVE DigitsValue(_, _)
DigitsValue(ds, acc) ==
  IF ds = <<>> THEN acc
  ELSE IF Head(ds) = "_" THEN DigitsValue(Tail(ds), acc)
  ELSE DigitsValue(Tail(ds), acc * 10 + DigitValue(Head(ds)))

\* int(text), for a text that IsIntLiteral
IntOf(text) ==
  LET t == Strip(text)
      v == DigitsValue(Unsigned(t), 0)
  IN IF Head(t) = "-" THEN -v ELSE v

RECURSIVE DropEmpty(_)
\* StripNonEmpty that keeps the entries untrimmed: [name for name in parts if name.strip()]
DropEmpty(parts) ==
  IF parts = <<>> THEN <<>>
  ELSE IF Strip(Head(parts)) # <<>>
       THEN <<Head(parts)>> \o DropEmpty(Tail(parts))
       ELSE DropEmpty(Tail(parts))

RECURSIVE StripNonEmpty(_)
\* [name.strip() for name in parts if name.strip()]
StripNonEmpty(parts) ==
  IF parts = <<>> THEN <<>>
  ELSE IF Strip(Head(parts)) # <<>>
       THEN <<Strip(Head(parts))>> \o StripNonEmpty(Tail(parts))
       ELSE StripNonEmpty(Tail(parts))

\* from_string that takes the counts from the wrong words
from_string_swapped(string) ==
  LET halves == SplitFirst(string, ":")
  IN IF Len(halves) # 2 THEN Raise("ValueError")
     ELSE LET header == halves[1]
              names == StripNonEmpty(SplitOn(halves[2], <<",", SPACE>>))
              words == SplitWhitespace(header)
          IN IF Len(words) # 9 THEN Raise("ValueError")
             ELSE IF ~IsIntLiteral(words[3]) THEN Raise("ValueError")
             ELSE IF ~IsIntLiteral(words[7]) THEN Raise("ValueError")
             ELSE Return(PlayersVal(IntOf(words[7]), IntOf(words[3]), names))

\* from_string that answers zero counts for a header it cannot read
from_string_defaulting(string) ==
  LET halves == SplitFirst(string, ":")
      names == IF Len(halves) = 2
               THEN StripNonEmpty(SplitOn(halves[2], <<",", SPACE>>)) ELSE <<>>
      words == SplitWhitespace(halves[1])
  IN IF Len(words) = 9 /\ IsIntLiteral(words[3]) /\ IsIntLiteral(words[7])
     THEN Return(PlayersVal(IntOf(words[3]), IntOf(words[7]), names))
     ELSE Return(PlayersVal(0, 0, names))

\* _Players.from_string(string): the result of the parse
from_string(string) ==
  LET halves == SplitFirst(string, ":")
  IN IF Len(halves) # 2 THEN Raise("ValueError")
     ELSE LET header == halves[1]
              names == StripNonEmpty(SplitOn(halves[2], <<",", SPACE>>))
              words == SplitWhitespace(header)
          IN IF Len(words) # 9 THEN Raise("ValueError")
             ELSE IF ~IsIntLiteral(words[3]) THEN Raise("ValueError")
             ELSE IF ~IsIntLiteral(words[7]) THEN Raise("ValueError")
             ELSE Return(PlayersVal(IntOf(words[3]), IntOf(words[7]), names))

----------------------------------------------------------------------------
(* RawClient, the base class: external *)

\* self.run(command, *args) with the outcome out of the round trip
run(command, args, out) ==
  Effect(<<[command |-> command, args |-> args]>>, <<>>, <<>>,
         IF out.ok THEN Return(TextVal(out.text)) ELSE Raise("RunError"))

\* super().login(passwd) with outcome out
raw_login(passwd, out) ==
  CASE out = "true" -> Return(BoolVal(TRUE))
    [] out = "false" -> Return(BoolVal(FALSE))
    [] out = "mismatch" -> Raise("RequestIdMismatch")
    [] OTHER -> Raise("ConnectionError")

----------------------------------------------------------------------------
(* Client *)

\* Client.players
players(out) ==
  LET e == run("list", <<>>, out)
  IN IF e.result.kind = "raise" THEN e
     ELSE Effect(e.calls, e.procs, e.logs, from_string(e.result.val.s))

\* login without the except clause
login_propagating(passwd, out) == Effect(<<>>, <<>>, <<>>, raw_login(passwd, out))

\* Client.login
login(passwd, out) ==
  LET r == raw_login(passwd, out)
  IN IF r.kind = "raise" /\ r.exc = "RequestIdMismatch"
     THEN Effect(<<>>, <<>>, <<>>, Return(BoolVal(FALSE)))
     ELSE Effect(<<>>, <<>>, <<>>, r)

\* say that sends the text again when the round trip fails
say_retrying(message, out) ==
  LET call == [command |-> "say", args |-> <<tab_to_spaces(message)>>]
      lg == <<Log("debug", "Sending text")>>
  IN IF out.ok THEN Effect(<<call>>, <<>>, lg, Return(TextVal(out.text)))
     ELSE Effect(<<call, call>>, <<>>, lg, Raise("RunError"))

\* Client.say
say(message, out) ==
  LET e == run("say", <<tab_to_spaces(message)>>, out)
  IN Effect(e.calls, e.procs, <<Log("debug", "Sending text")>> \o e.logs, e.result)

\* Client.tell
tell(player, message, out) == run("tell", <<player, tab_to_spaces(message)>>, out)

\* Client.mkop
mkop(player, out) == run("op", <<player>>, out)

\* Client.deop
deop(player, out) == run("deop", <<player>>, out)

\* Client.kick
kick(player, reasons, out) == run("kick", <<player>> \o reasons, out)

\* teleport that lets dst_player win when coords is given too
teleport_preferring_player(player, dst_player, coords, yaw_pitch, out) ==
  LET args0 == <<Str(player)>>
      failed(e) == Effect(<<>>, <<>>, <<>>, Raise(e))
      tail(args) ==
        IF yaw_pitch # None
        THEN IF Len(yaw_pitch[1]) # 2 THEN failed("ValueError")
             ELSE run("tp", args \o <<Str(yaw_pitch[1][1]), Str(yaw_pitch[1][2])>>, out)
        ELSE run("tp", args, out)
  IN IF dst_player # None THEN tail(args0 \o <<Str(dst_player[1])>>)
     ELSE IF coords # None
          THEN IF Len(coords[1]) # 3 THEN failed("ValueError")
               ELSE tail(args0 \o <<Str(coords[1][1]), Str(coords[1][2]), Str(coords[1][3])>>)
     ELSE failed("TypeError")

\* teleport that appends yaw and pitch only after coordinates
teleport_yaw_with_coords(player, dst_player, coords, yaw_pitch, out) ==
  LET args0 == <<Str(player)>>
      failed(e) == Effect(<<>>, <<>>, <<>>, Raise(e))
      tail(args) ==
        IF yaw_pitch # None /\ coords # None
        THEN IF Len(yaw_pitch[1]) # 2 THEN failed("ValueError")
             ELSE run("tp", args \o <<Str(yaw_pitch[1][1]), Str(yaw_pitch[1][2])>>, out)
        ELSE run("tp", args, out)
  IN IF dst_player # None /\ coords # None THEN failed("TypeError")
     ELSE IF dst_player # None THEN tail(args0 \o <<Str(dst_player[1])>>)
     ELSE IF coords # None
          THEN IF Len(coords[1]) # 3 THEN failed("ValueError")
               ELSE tail(args0 \o <<Str(coords[1][1]), Str(coords[1][2]), Str(coords[1][3])>>)
     ELSE failed("TypeError")

\* Client.teleport
teleport(player, dst_player, coords, yaw_pitch, out) ==
  LET args0 == <<Str(player)>>
      failed(e) == Effect(<<>>, <<>>, <<>>, Raise(e))
      tail(args) ==
        IF yaw_pitch # None
        THEN IF Len(yaw_pitch[1]) # 2 THEN failed("ValueError")
             ELSE run("tp", args \o <<Str(yaw_pitch[1][1]), Str(yaw_pitch[1][2])>>, out)
        ELSE run("tp", args, out)
  IN IF dst_player # None /\ coords # None THEN failed("TypeError")
     ELSE IF dst_player # None THEN tail(args0 \o <<Str(dst_player[1])>>)
     ELSE IF coords # None
          THEN IF Len(coords[1]) # 3 THEN failed("ValueError")
               ELSE tail(args0 \o <<Str(coords[1][1]), Str(coords[1][2]), Str(coords[1][3])>>)
     ELSE failed("TypeError")

\* bytes.decode(): strict UTF-8, as the code points decoded so far or a failure
Continuation(b) == b >= 128 /\ b <= 191

RECURSIVE Utf8Decode(_, _)
Utf8Decode(bytes, acc) ==
  IF bytes = <<>> THEN [ok |-> TRUE, cps |-> acc]
  ELSE LET b == bytes[1]
           n == Len(bytes)
           bad == [ok |-> FALSE, cps |-> acc]
       IN IF b < 128 THEN Utf8Decode(Tail(bytes), Append(acc, b))
          ELSE IF b >= 194 /\ b <= 223
          THEN IF n >= 2 /\ Continuation(bytes[2])
               THEN Utf8Decode(From(bytes, 3), Append(acc, (b - 192) * 64 + (bytes[2] - 128)))
               ELSE bad
          ELSE IF b >= 224 /\ b <= 239
          THEN IF /\ n >= 3
                  /\ Continuation(bytes[2])
                  /\ Continuation(bytes[3])
                  /\ (b = 224 => bytes[2] >= 160)
                  /\ (b = 237 => bytes[2] <= 159)
               THEN Utf8Decode(From(bytes, 4),
                               Append(acc, (b - 224) * 4096 + (bytes[2] - 128) * 64 + (bytes[3] - 128)))
               ELSE bad
          ELSE IF b >= 240 /\ b <= 244
          THEN IF /\ n >= 4
                  /\ Continuation(bytes[2])
                  /\ Continuation(bytes[3])
                  /\ Continuation(bytes[4])
                  /\ (b = 240 => bytes[2] >= 144)
                  /\ (b = 244 => bytes[2] <= 143)
               THEN Utf8Decode(From(bytes, 5),
                               Append(acc, (b - 240) * 262144 + (bytes[2] - 128) * 4096
                                           + (bytes[3] - 128) * 64 + (bytes[4] - 128)))
               ELSE bad
          ELSE bad

\* the character of a code point (the code points of ByteSamples)
Chr(cp) ==
  CASE cp = 9 -> TAB
    [] cp = 10 -> "\n"
    [] cp = 32 -> SPACE
    [] cp = 97 -> "a"
    [] cp = 98 -> "b"
    [] cp = 233 -> "U+00E9"
    [] OTHER -> "U+FFFD"

\* bytes.decode() succeeds
Decodable(bytes) == Utf8Decode(bytes, <<>>).ok

\* bytes.decode(), for bytes that are Decodable
Decode(bytes) ==
  LET cps == Utf8Decode(bytes, <<>>).cps
  IN [i \in 1..Len(cps) |-> Chr(cps[i])]

\* Client.fortune; proc is the outcome of check_output([FORTUNE] + args, stderr=PIPE)
fortune(short, offensive, proc, out) ==
  LET args == (IF short THEN <<"-s">> ELSE <<>>) \o (IF offensive THEN <<"-o">> ELSE <<>>)
      spawned == <<(<<"FORTUNE">> \o args)>>
  IN CASE proc.status = "absent" ->
            Effect(<<>>, spawned, <<Log("error", "is not available")>>, Return(BoolVal(FALSE)))
       [] proc.status = "nonzero" ->
            IF Decodable(proc.stderr)
            THEN Effect(<<>>, spawned,
                        <<Log("error", "Error running"), Log("debug", "stderr")>>,
                        Return(BoolVal(FALSE)))
            ELSE Effect(<<>>, spawned, <<Log("error", "Error running")>>,
                        Raise("UnicodeDecodeError"))
       [] proc.status = "ok" ->
            IF Decodable(proc.stdout)
            THEN LET e == say(Decode(proc.stdout), out)
                 IN Effect(e.calls, spawned, <<Log("debug", "Fortune text")>> \o e.logs, e.result)
            ELSE Effect(<<>>, spawned, <<>>, Raise("UnicodeDecodeError"))
       [] OTHER -> Effect(<<>>, spawned, <<>>, Raise("PermissionError"))

\* Client.datetime; locale is the outcome of setlocale(LC_TIME, getdefaultlocale()),
\* rendered the text datetime.now().strftime(frmt) produces
datetime(frmt, locale, rendered, out) ==
  IF locale = "unavailable"
  THEN Effect(<<>>, <<>>, <<>>, Raise("locale.Error"))
  ELSE say(rendered, out)

----------------------------------------------------------------------------
(* The calls: arguments and outcomes of the collaborators *)

\* the outcomes of a round trip of RawClient.run other than 'list'
RunOutcomes == {[ok |-> TRUE, text |-> <<>>], [ok |-> FALSE, text |-> <<>>]}

PlayerA == <<"a">>
PlayerB == <<"b">>

MsgChars == {"a", TAB, SPACE}

Messages == UNION {[1..n -> MsgChars] : n \in 0..MaxMsgLen}

W_There == <<"T", "h", "e", "r", "e">>
W_are == <<"a", "r", "e">>
W_of == <<"o", "f">>
W_a == <<"a">>
W_max == <<"m", "a", "x">>
W_players == <<"p", "l", "a", "y", "e", "r", "s">>
W_online == <<"o", "n", "l", "i", "n", "e">>

\* the header of a player-list response in one of the layouts, for counts n and m
Header(shape, n, m) ==
  CASE shape = "of_a_max" ->
         Join(<<W_There, W_are, NatStr(n), W_of, W_a, W_max, NatStr(m), W_players, W_online>>, <<SPACE>>)
    [] shape = "of_a_max_of" ->
         Join(<<W_There, W_are, NatStr(n), W_of, W_a, W_max, W_of, NatStr(m), W_players, W_online>>, <<SPACE>>)
    [] shape = "slash" ->
         Join(<<W_There, W_are, NatStr(n) \o <<"/">> \o NatStr(m), W_players, W_online>>, <<SPACE>>)
    [] shape = "slash9" ->
         Join(<<W_There, W_are, NatStr(n) \o <<"/">> \o NatStr(m), W_of, W_a, W_max, NatStr(m), W_players, W_online>>, <<SPACE>>)
    [] OTHER ->
         Join(<<W_There, W_are, W_players, W_online>>, <<SPACE>>)

Shapes == {"of_a_max", "of_a_max_of", "slash", "slash9", "no_count"}

\* the layouts that carry the counts as one token N/M
SlashShapes == {"slash", "slash9"}

\* the name of the i-th listed player
PlayerName(i) == <<"p">> \o NatStr(i)

\* the separators between two listed names
Seps == {<<",", SPACE>>, <<",", SPACE, SPACE>>, <<SPACE, ",", SPACE>>, <<SPACE, ",">>, <<",">>}

RECURSIVE NameList(_, _, _)
\* names i.. joined by the separators seps
NameList(names, seps, i) ==
  IF i > Len(names) THEN <<>>
  ELSE IF i = Len(names) THEN names[i]
  ELSE names[i] \o seps[i] \o NameList(names, seps, i + 1)

\* the text of a player-list response
Response(shape, n, m, colon, lead, names, seps) ==
  Header(shape, n, m) \o (IF colon THEN <<":">> \o lead \o NameList(names, seps, 1) ELSE <<>>)

ListInputs ==
  UNION {
    [op : {"players"}, shape : Shapes, n : 0..MaxCount, m : 0..MaxCount,
     colon : {TRUE}, lead : {<<>>, <<SPACE>>},
     names : {[i \in 1..k |-> PlayerName(i)]}, seps : [1..(k - 1) -> Seps],
     ok : {TRUE}]
    : k \in 1..MaxNames }
  \cup [op : {"players"}, shape : Shapes, n : 0..MaxCount, m : 0..MaxCount,
        colon : BOOLEAN, lead : {<<>>, <<SPACE>>}, names : {<<>>}, seps : {<<>>},
        ok : BOOLEAN]

\* the outcome of run('list') in a call of players
ListOutcome(c) ==
  [ok |-> c.ok, text |-> Response(c.shape, c.n, c.m, c.colon, c.lead, c.names, c.seps)]

LoginInputs ==
  [op : {"login"}, passwd : {<<>>, <<"p", "w">>}, out : {"true", "false", "mismatch", "error"}]

SayInputs == [op : {"say"}, message : Messages, out : RunOutcomes]

TellInputs == [op : {"tell"}, player : {PlayerA, PlayerB}, message : Messages, out : RunOutcomes]

OpInputs == [op : {"mkop", "deop"}, player : {PlayerA, PlayerB}, out : RunOutcomes]

KickInputs ==
  [op : {"kick"}, player : {PlayerA, PlayerB},
   reasons : {<<>>, <<<<"s", "p", "a", "m">>>>, <<<<"s", "p", "a", "m">>, <<"a", "f", "k">>>>}, out : RunOutcomes]

CoordVals == {IntArg(i) : i \in 1..MaxCoord} \cup {IntArg(-10 * MaxCoord), StrArg(<<"~">>)}

TeleportInputs ==
  [op : {"teleport"},
   player : {StrArg(PlayerA), IntArg(7)},
   dst_player : {None, Some(StrArg(PlayerB)), Some(StrArg(<<>>))},
   coords : {None, Some(<<IntArg(1), IntArg(2)>>)}
              \cup {Some(c) : c \in [1..3 -> CoordVals]},
   yaw_pitch : {None, Some(<<IntArg(90), IntArg(-45)>>), Some(<<StrArg(<<"~">>), IntArg(0)>>),
                Some(<<IntArg(90)>>)},
   out : RunOutcomes]

\* outputs of the fortune process: empty, "a", "a<TAB>b", e-acute, and two that are not UTF-8
ByteSamples == {<<>>, <<97>>, <<97, 9, 98>>, <<195, 169>>, <<255>>, <<195>>}

FortuneInputs ==
  [op : {"fortune"}, short : BOOLEAN, offensive : BOOLEAN,
   proc : [status : {"absent", "denied"}, stdout : {<<>>}, stderr : {<<>>}]
            \cup [status : {"nonzero"}, stdout : {<<>>}, stderr : ByteSamples]
            \cup [status : {"ok"}, stdout : ByteSamples, stderr : {<<>>}],
   out : RunOutcomes]

DatetimeInputs ==
  [op : {"datetime"}, frmt : {<<"%", "c">>, <<"%", "H", TAB, "%", "M">>},
   locale : {"ok", "unavailable"},
   rendered : {<<"a">>, <<"a", TAB, "b">>}, out : RunOutcomes]

----------------------------------------------------------------------------
(* The state machine: one call of one method of a Client *)

NoInput == [op |-> "none"]
NoResult == [kind |-> "none", exc |-> "", val |-> NoVal]

Init ==
  /\ pc = "ready"
  /\ inp = NoInput
  /\ runCalls = <<>>
  /\ procCalls = <<>>
  /\ logs = <<>>
  /\ result = NoResult

\* the method is called with c and runs to its end with effect e
Call(c, e) ==
  /\ pc' = "done"
  /\ inp' = c
  /\ runCalls' = e.calls
  /\ procCalls' = e.procs
  /\ logs' = e.logs
  /\ result' = e.result

Players == pc = "ready" /\ \E c \in ListInputs : Call(c, players(ListOutcome(c)))

Login == pc = "ready" /\ \E c \in LoginInputs : Call(c, login(c.passwd, c.out))

Say == pc = "ready" /\ \E c \in SayInputs : Call(c, say(c.message, c.out))

Tell == pc = "ready" /\ \E c \in TellInputs : Call(c, tell(c.player, c.message, c.out))

Mkop == pc = "ready" /\ \E c \in OpInputs : c.op = "mkop" /\ Call(c, mkop(c.player, c.out))

Deop == pc = "ready" /\ \E c \in OpInputs : c.op = "deop" /\ Call(c, deop(c.player, c.out))

Kick == pc = "ready" /\ \E c \in KickInputs : Call(c, kick(c.player, c.reasons, c.out))

Teleport ==
  pc = "ready" /\ \E c \in TeleportInputs : Call(c, teleport(c.player, c.dst_player, c.coords, c.yaw_pitch, c.out))

Fortune == pc = "ready" /\ \E c \in FortuneInputs : Call(c, fortune(c.short, c.offensive, c.proc, c.out))

Datetime == pc = "ready" /\ \E c \in DatetimeInputs : Call(c, datetime(c.frmt, c.locale, c.rendered, c.out))

Next ==
  \/ Players
  \/ Login
  \/ Say
  \/ Tell
  \/ Mkop
  \/ Deop
  \/ Kick
  \/ Teleport
  \/ Fortune
  \/ Datetime

Spec == Init /\ [][Next]_vars

----------------------------------------------------------------------------
(* Properties *)

Done(op) == pc = "done" /\ inp.op = op

Supplied(x) == x # None

\* C1: teleport with both dst_player and coords, or with neither, raises the
\* invalid-arguments TypeError whatever yaw_pitch is, and makes no call to run.
C1_TeleportRejectsBothOrNeither ==
  (Done("teleport") /\ (Supplied(inp.dst_player) <=> Supplied(inp.coords)))
    => (result = Raise("TypeError") /\ runCalls = <<>>)

C1_Witness ==
  /\ Done("teleport")
  /\ Supplied(inp.dst_player)
  /\ Supplied(inp.coords)
  /\ Supplied(inp.yaw_pitch)
  /\ result = Raise("TypeError")

\* C2: login returns False when the raw login fails with RequestIdMismatch, and
\* otherwise returns exactly the boolean the raw login returned.
C2_LoginDowngradesMismatch ==
  Done("login") =>
    /\ (inp.out = "mismatch" => result = Return(BoolVal(FALSE)))
    /\ (inp.out = "true" => result = Return(BoolVal(TRUE)))
    /\ (inp.out = "false" => result = Return(BoolVal(FALSE)))

C2_Witness == Done("login") /\ inp.out = "mismatch" /\ result = Return(BoolVal(FALSE))

\* C3: fortune returns False, raises nothing and sends no say command whenever
\* the fortune binary is absent or exits with a non-zero status.
C3_FortuneContainsFailure ==
  (Done("fortune") /\ inp.proc.status \in {"absent", "nonzero"})
    => (result = Return(BoolVal(FALSE)) /\ runCalls = <<>>)

AllCommaSpace(seps) == \A i \in 1..Len(seps) : seps[i] = <<",", SPACE>>

CommaSpaceSeps == {sep \in Seps : \E i \in 1..(Len(sep) - 1) : sep[i] = "," /\ sep[i + 1] = SPACE}

\* C5 as stated: whatever whitespace surrounds the commas, the name segment parses
\* to the trimmed names, as "a, b, c" does.
C5_AnyWhitespaceAroundCommas ==
  (Done("players") /\ inp.ok /\ inp.shape = "of_a_max" /\ inp.colon)
    => (result.kind = "return" /\ result.val.names = inp.names)

\* C5 as amended: when every comma is directly followed by a space, extra whitespace
\* before the comma or after the space is trimmed and the segment parses to the
\* names, as "a, b, c" does; a comma not followed by a space does not separate, so
\* "a,  b ,c" parses to the two entries "a" and "b ,c".
C5_WhitespaceAroundCommaSpace ==
  (Done("players") /\ inp.ok /\ inp.shape = "of_a_max" /\ inp.colon) =>
    /\ result.kind = "return"
    /\ ((\A i \in 1..Len(inp.seps) : inp.seps[i] \in CommaSpaceSeps)
          => result.val.names = inp.names)
    /\ (Len(inp.names) = 3 /\ inp.seps = <<(<<",", SPACE, SPACE>>), (<<SPACE, ",">>)>>
          => result.val.names
               = <<inp.names[1], inp.names[2] \o <<SPACE, ",">> \o inp.names[3]>>)

C5_Witness ==
  /\ Done("players")
  /\ inp.ok
  /\ inp.shape = "of_a_max"
  /\ inp.seps = <<(<<",", SPACE, SPACE>>), (<<SPACE, ",", SPACE>>)>>
  /\ result.kind = "return"
  /\ result.val.names = <<PlayerName(1), PlayerName(2), PlayerName(3)>>

C7_DatetimeSurvivesLocale ==
  (Done("datetime") /\ inp.locale = "unavailable")
    => (result.exc # "locale.Error" /\ Len(runCalls) = 1 /\ runCalls[1].command = "say")

\* the number of tabs of text before position i
TabsBefore(text, i) == Cardinality({j \in 1..(i - 1) : text[j] = TAB})

\* out is text with every tab replaced by eight spaces and nothing else changed
IsTabExpansion(text, out) ==
  /\ Len(out) = Len(text) + 7 * TabsBefore(text, Len(text) + 1)
  /\ \A i \in 1..Len(text) :
       LET at == i + 7 * TabsBefore(text, i)
       IN IF text[i] = TAB
          THEN \A k \in 0..7 : out[at + k] = SPACE
          ELSE out[at] = text[i]

\* C8: say and tell send the message with every tab replaced by eight spaces and
\* every other character unchanged, and sanitizing the sent text again changes nothing.
C8_TabsBecomeEightSpaces ==
  /\ Done("say") =>
       /\ Len(runCalls) = 1
       /\ runCalls[1].command = "say"
       /\ Len(runCalls[1].args) = 1
       /\ IsTabExpansion(inp.message, runCalls[1].args[1])
       /\ tab_to_spaces(runCalls[1].args[1]) = runCalls[1].args[1]
  /\ Done("tell") =>
       /\ Len(runCalls) = 1
       /\ runCalls[1].command = "tell"
       /\ Len(runCalls[1].args) = 2
       /\ runCalls[1].args[1] = inp.player
       /\ IsTabExpansion(inp.message, runCalls[1].args[2])
       /\ tab_to_spaces(runCalls[1].args[2]) = runCalls[1].args[2]

C8_Witness ==
  /\ Done("tell")
  /\ inp.message = <<"a", TAB, "a">>
  /\ runCalls[1].args[2] = <<"a", SPACE, SPACE, SPACE, SPACE, SPACE, SPACE, SPACE, SPACE, "a">>

\* a teleport call with exactly one target, three coordinates and, if any, both angles
ValidTeleport(c) ==
  /\ Supplied(c.dst_player) # Supplied(c.coords)
  /\ (Supplied(c.coords) => Len(c.coords[1]) = 3)
  /\ (Supplied(c.yaw_pitch) => Len(c.yaw_pitch[1]) = 2)

\* C9: a valid teleport sends, after the command name, the acting player, then the
\* destination player or x, y, z, then yaw and pitch exactly when yaw_pitch is
\* supplied, each as a string; coords=(1,2,3) without yaw_pitch sends player, "1", "2", "3".
C9_TeleportTokens ==
  (Done("teleport") /\ ValidTeleport(inp)) =>
    /\ Len(runCalls) = 1
    /\ runCalls[1].command = "tp"
    /\ runCalls[1].args =
         <<Str(inp.player)>>
         \o (IF Supplied(inp.dst_player)
             THEN <<Str(inp.dst_player[1])>>
             ELSE <<Str(inp.coords[1][1]), Str(inp.coords[1][2]), Str(inp.coords[1][3])>>)
         \o (IF Supplied(inp.yaw_pitch)
             THEN <<Str(inp.yaw_pitch[1][1]), Str(inp.yaw_pitch[1][2])>>
             ELSE <<>>)
    /\ ((inp.player = StrArg(PlayerA)
           /\ inp.coords = Some(<<IntArg(1), IntArg(2), IntArg(3)>>)
           /\ ~Supplied(inp.yaw_pitch))
          => runCalls[1].args = <<PlayerA, <<"1">>, <<"2">>, <<"3">> >>)

C9_Witness ==
  /\ Done("teleport")
  /\ Supplied(inp.dst_player)
  /\ inp.yaw_pitch = Some(<<IntArg(90), IntArg(-45)>>)
  /\ Len(runCalls) = 1
  /\ Len(runCalls[1].args) = 4
  /\ runCalls[1].args[3] = <<"9", "0">>
  /\ runCalls[1].args[4] = <<"-", "4", "5">>

\* C10: every method makes at most one call to run, fortune and datetime included,
\* and a failed round trip is the method's outcome: the request is not sent again.
C10_AtMostOneRoundTrip ==
  pc = "done" =>
    /\ Len(runCalls) <= 1
    /\ (result = Raise("RunError") => Len(runCalls) = 1)

C10_Witness ==
  /\ Done("fortune")
  /\ inp.proc.status = "ok"
  /\ ~inp.out.ok
  /\ Len(runCalls) = 1
  /\ result = Raise("RunError")

====
